---- MODULE Spec2Model ----
(***************************************************************************)
(* A model of karaser: the stylesheet parser (parsers/css-parser.rs), the  *)
(* markup parser (parser/mod.rs) and the style resolver (styles.rs).       *)
(*                                                                         *)
(* Text is a sequence of Unicode code points (naturals), so that the       *)
(* character tests of the source (c >= 'a' && c <= 'z', c >= U+0080)       *)
(* are translated as the comparisons they are.  An Option<T> is a sequence *)
(* of length 0 (None) or 1 (Some).                                         *)
(***************************************************************************)
EXTENDS Integers, Sequences, FiniteSets, TLC

VARIABLES
    css_case,          \* the stylesheet under parse: its kind, text and expected rules
    css_in,            \* CssParser.chars: the text being iterated
    css_pos,           \* CssParser.chars: index of the next character (Peekable)
    css_pc,            \* the position of the stylesheet parser in its code
    css_rules,         \* parse_stylesheet: stylesheet.rules
    css_selectors,     \* parse_selectors: selectors
    css_simple,        \* parse_selector: simple_sel
    css_multiple_ids,  \* parse_selector: multiple_ids
    css_decls,         \* parse_declarations: decls
    h_case,            \* the markup under parse: its kind, text and expected tree
    h_in,              \* Parser.input
    h_pos,             \* Parser.pos: a byte offset into the input
    h_pc,              \* the position of the markup parser in its code
    h_stack,           \* the calls of parse_nodes in progress, the innermost last
    h_result,          \* what Parser::parse returned
    h_closed,          \* the open and close names of every element constructed
    m_case,            \* is_selector_matches: the element (el) and what it is said to hold
    m_sel,             \* is_selector_matches: sel
    m_result,          \* what is_selector_matches returned
    m_pc,              \* whether is_selector_matches was called and has returned
    s_el,              \* get_styles: el
    s_sheet,           \* get_styles: stylesheet.rules
    s_rule,            \* get_styles: the index of the rule of the outer loop
    s_sel,             \* get_styles: the index of the selector of the inner loop
    s_styles,          \* get_styles: styles
    s_merges,          \* how many times each rule's declarations were merged into styles
    s_pc,              \* the position of get_styles in its code
    v_case,            \* the value translated: a colour keyword, a length, a style map
    v_out,             \* what translate_color, translate_length or get_display returned
    v_pc               \* whether the translation was called and has returned

css_vars == << css_case, css_in, css_pos, css_pc, css_rules, css_selectors,
               css_simple, css_multiple_ids, css_decls >>

h_vars == << h_case, h_in, h_pos, h_pc, h_stack, h_result, h_closed >>

m_vars == << m_case, m_sel, m_result, m_pc >>

s_vars == << s_el, s_sheet, s_rule, s_sel, s_styles, s_merges, s_pc >>

v_vars == << v_case, v_out, v_pc >>

vars == << css_vars, h_vars, m_vars, s_vars, v_vars >>

\* What a step of one program leaves alone: the other programs.
non_css_vars == << h_vars, m_vars, s_vars, v_vars >>

non_h_vars == << css_vars, m_vars, s_vars, v_vars >>

non_m_vars == << css_vars, h_vars, s_vars, v_vars >>

non_s_vars == << css_vars, h_vars, m_vars, v_vars >>

non_v_vars == << css_vars, h_vars, m_vars, s_vars >>

-----------------------------------------------------------------------------
(* Characters and strings *)

Ascii ==
    << " ", "!", "dq", "#", "$", "%", "&", "'", "(", ")", "*", "+", ",", "-", ".", "/",
       "0", "1", "2", "3", "4", "5", "6", "7", "8", "9", ":", ";", "<", "=", ">", "?",
       "@", "A", "B", "C", "D", "E", "F", "G", "H", "I", "J", "K", "L", "M", "N", "O",
       "P", "Q", "R", "S", "T", "U", "V", "W", "X", "Y", "Z", "[", "bs", "]", "^", "_",
       "bq", "a", "b", "c", "d", "e", "f", "g", "h", "i", "j", "k", "l", "m", "n", "o",
       "p", "q", "r", "s", "t", "u", "v", "w", "x", "y", "z", "{", "|", "}", "~" >>

\* The code point of a character written as a one-character string; "NL", "TAB",
\* "NBSP" (U+00A0), "eacute" (U+00E9), "Eacute" (U+00C9), "sup2" (U+00B2) and
\* "euro" (U+20AC) name characters outside the printable ASCII range.
Code(ch) ==
    CASE ch = "NL" -> 10
      [] ch = "TAB" -> 9
      [] ch = "NBSP" -> 160
      [] ch = "sup2" -> 178
      [] ch = "Eacute" -> 201
      [] ch = "eacute" -> 233
      [] ch = "euro" -> 8364
      [] OTHER -> 31 + (CHOOSE i \in 1..Len(Ascii) : Ascii[i] = ch)

Str(s) == [i \in 1..Len(s) |-> Code(s[i])]

\* The characters the parsers test for.
LBrace == Code("{")
RBrace == Code("}")
Comma == Code(",")
Colon == Code(":")
Semicolon == Code(";")
Hash == Code("#")
Dot == Code(".")
Newline == Code("NL")
UpperA == Code("A")
UpperZ == Code("Z")
LowerA == Code("a")
LowerZ == Code("z")
Digit0 == Code("0")
Digit9 == Code("9")
Underscore == Code("_")
Hyphen == Code("-")

\* Concatenation of a sequence of strings.
RECURSIVE Concat(_)
Concat(ss) == IF ss = << >> THEN << >> ELSE Head(ss) \o Concat(Tail(ss))

None == << >>
Some(x) == << x >>

\* char::is_whitespace (White_Space: the ASCII ones, U+0085, U+00A0).
is_whitespace(c) == c \in {9, 10, 11, 12, 13, 32, 133, 160}

\* char::to_lowercase on the characters of the model.
char_to_lowercase(c) ==
    IF c >= 65 /\ c <= 90 THEN c + 32
    ELSE IF c >= 192 /\ c <= 222 /\ c # 215 THEN c + 32
    ELSE c

to_lowercase(s) == [i \in 1..Len(s) |-> char_to_lowercase(s[i])]

is_upper_letter(c) == c >= UpperA /\ c <= UpperZ

is_lower_letter(c) == c >= LowerA /\ c <= LowerZ

is_letter(c) == is_upper_letter(c) \/ is_lower_letter(c)

is_non_ascii(c) == c >= 128

is_valid_start_ident(c) == is_letter(c) \/ is_non_ascii(c) \/ c = Underscore

\* char::is_digit(10)
is_digit10(c) == c >= Digit0 /\ c <= Digit9

is_valid_ident(c) == is_valid_start_ident(c) \/ is_digit10(c) \/ c = Hyphen

-----------------------------------------------------------------------------
(* The cursor of the stylesheet parser: a Peekable<Chars> *)

NoChar == -1

\* self.chars.peek(): the next character, NoChar for None.
Peek(in, pos) == IF pos <= Len(in) THEN in[pos] ELSE NoChar

\* self.chars.next(): past the next character, if there is one.
Advance(in, pos) == IF pos <= Len(in) THEN pos + 1 ELSE pos

\* consume_while(condition): the index after the maximal run of characters
\* satisfying Keep; the run itself is Run(in, pos, thatIndex).
ConsumeEnd(in, pos, Keep(_)) ==
    CHOOSE e \in pos..(Len(in) + 1) :
        /\ \A i \in pos..(e - 1) : Keep(in[i])
        /\ e = Len(in) + 1 \/ ~Keep(in[e])

Run(in, from, to) == SubSeq(in, from, to - 1)

SkipWhitespace(in, pos) == ConsumeEnd(in, pos, is_whitespace)

-----------------------------------------------------------------------------
(* The Style Object Model (css.rs) *)

Color(r, g, b, a) == [kind |-> "Color", r |-> r, g |-> g, b |-> b, a |-> a]

Length(num, unit) == [kind |-> "Length", num |-> num, unit |-> unit]

Other(s) == [kind |-> "Other", text |-> s]

Declaration(property, value) == [property |-> property, value |-> value]

SimpleSelector(tag_name, id, classes) ==
    [tag_name |-> tag_name, id |-> id, classes |-> classes]

DefaultSimpleSelector == SimpleSelector(None, None, << >>)

Selector(simple, combinators) == [simple |-> simple, combinators |-> combinators]

DefaultSelector == Selector(<< >>, << >>)

Rule(selectors, declarations) ==
    [selectors |-> selectors, declarations |-> declarations]

-----------------------------------------------------------------------------
(* Value translation (css-parser.rs) *)

\* translate_color with Color::default, white, in the last arm.
translate_color_DefaultWhite(color) ==
    CASE color = Str(<<"b","l","a","c","k">>) -> Color(0, 0, 0, 1)
      [] color = Str(<<"r","e","d">>) -> Color(1, 0, 0, 1)
      [] color = Str(<<"g","r","e","e","n">>) -> Color(0, 1, 0, 1)
      [] color = Str(<<"b","l","u","e">>) -> Color(0, 0, 1, 1)
      [] OTHER -> Color(1, 1, 1, 1)

translate_color(color) ==
    CASE color = Str(<<"b","l","a","c","k">>) -> Color(0, 0, 0, 1)
      [] color = Str(<<"w","h","i","t","e">>) -> Color(1, 1, 1, 1)
      [] color = Str(<<"r","e","d">>) -> Color(1, 0, 0, 1)
      [] color = Str(<<"g","r","e","e","n">>) -> Color(0, 1, 0, 1)
      [] color = Str(<<"b","l","u","e">>) -> Color(0, 0, 1, 1)
      [] OTHER -> Color(0, 0, 0, 1)

\* char::is_numeric: the ASCII digits and the Latin-1 numerics (superscripts
\* two, three and one, and the vulgar fractions).
is_numeric(c) == is_digit10(c) \/ c \in {178, 179, 185, 188, 189, 190}

RECURSIVE Decimal(_)
Decimal(digits) ==
    IF digits = << >> THEN 0
    ELSE 10 * Decimal(SubSeq(digits, 1, Len(digits) - 1))
         + (digits[Len(digits)] - Digit0)

\* num_str.parse::<f32>().unwrap_or(0.0), for a num_str of numeric characters.
ParseNumOrZero(num_str) ==
    IF num_str # << >> /\ \A i \in 1..Len(num_str) : is_digit10(num_str[i])
    THEN Decimal(num_str)
    ELSE 0

\* The unit a unit string stands for; the last arm is the default.
UnitOf(unit) ==
    CASE unit = Str(<<"p","x">>) -> "Px"
      [] unit = Str(<<"e","m">>) -> "Em"
      [] unit = Str(<<"r","e","m">>) -> "Rem"
      [] unit = Str(<<"v","h">>) -> "Vh"
      [] unit = Str(<<"v","w">>) -> "Vw"
      [] unit = Str(<<"v","m","i","n">>) -> "Vmin"
      [] unit = Str(<<"v","m","a","x">>) -> "Vmax"
      [] OTHER -> "Px"

translate_length(length) ==
    LET numEnd == ConsumeEnd(length, 1, is_numeric)
        num_str == Run(length, 1, numEnd)
        unit == SubSeq(length, numEnd, Len(length))
    IN  Length(ParseNumOrZero(num_str), UnitOf(unit))

ColorProperties ==
    { Str(<<"b","a","c","k","g","r","o","u","n","d","-","c","o","l","o","r">>),
      Str(<<"b","o","r","d","e","r","-","c","o","l","o","r">>),
      Str(<<"c","o","l","o","r">>) }

Sides == { Str(<<"t","o","p">>), Str(<<"l","e","f","t">>),
           Str(<<"r","i","g","h","t">>), Str(<<"b","o","t","t","o","m">>) }

LengthProperties ==
    { Str(<<"m","a","r","g","i","n">>), Str(<<"p","a","d","d","i","n","g">>),
      Str(<<"w","i","d","t","h">>), Str(<<"h","e","i","g","h","t">>) }
    \cup { Str(<<"m","a","r","g","i","n","-">>) \o s : s \in Sides }
    \cup { Str(<<"p","a","d","d","i","n","g","-">>) \o s : s \in Sides }
    \cup { Str(<<"b","o","r","d","e","r","-">>) \o s \o Str(<<"-","w","i","d","t","h">>)
           : s \in Sides }

\* parse_declarations: the value of a declaration, classified by its property.
ClassifyValue(property, val) ==
    IF property \in ColorProperties THEN translate_color(val)
    ELSE IF property \in LengthProperties THEN translate_length(val)
    ELSE Other(val)

-----------------------------------------------------------------------------
(* The stylesheet parser (css-parser.rs) *)

\* parse_identifier: where the identifier at pos ends (pos itself when the next
\* character does not start an identifier), and its text.
IdentEnd(in, pos) ==
    IF Peek(in, pos) # NoChar /\ is_valid_start_ident(Peek(in, pos))
    THEN ConsumeEnd(in, pos, is_valid_ident)
    ELSE pos

parse_identifier(in, pos) == to_lowercase(Run(in, pos, IdentEnd(in, pos)))

parse_id(in, pos) ==
    IF parse_identifier(in, pos) = << >> THEN None
    ELSE Some(parse_identifier(in, pos))

\* parse_stylesheet, the head of its loop: another rule, or the stylesheet is returned.
ParseStylesheetLoop ==
    /\ css_pc = "stylesheet"
    /\ IF Peek(css_in, css_pos) # NoChar
       THEN /\ css_pc' = "selectors"
            /\ css_selectors' = << >>
       ELSE /\ css_pc' = "done"
            /\ UNCHANGED css_selectors
    /\ UNCHANGED << css_case, css_in, css_pos, css_rules, css_simple,
                    css_multiple_ids, css_decls >>
    /\ UNCHANGED non_css_vars

\* The condition of the loop of parse_selectors.
SelectorsLoopCondition(c) == c # NoChar /\ c # LBrace

\* parse_selectors, the head of its loop: another selector, or the character
\* after the list is consumed and parse_declarations starts.
ParseSelectorsLoop ==
    /\ css_pc = "selectors"
    /\ IF SelectorsLoopCondition(Peek(css_in, css_pos))
       THEN /\ css_pc' = "selector"
            /\ UNCHANGED << css_pos, css_decls >>
       ELSE /\ css_pos' = Advance(css_in, css_pos)
            /\ css_decls' = << >>
            /\ css_pc' = "declarations"
    /\ UNCHANGED << css_case, css_in, css_rules, css_selectors, css_simple,
                    css_multiple_ids >>
    /\ UNCHANGED non_css_vars

\* parse_selector up to its token-scan loop: whitespace, the optional tag name.
ParseSelectorHead ==
    /\ css_pc = "selector"
    /\ \E p1 \in {SkipWhitespace(css_in, css_pos)} :
         /\ css_simple' =
               SimpleSelector(
                   IF Peek(css_in, p1) # NoChar /\ is_valid_start_ident(Peek(css_in, p1))
                   THEN Some(parse_identifier(css_in, p1))
                   ELSE None,
                   None, << >>)
         /\ css_pos' = IdentEnd(css_in, p1)
    /\ css_multiple_ids' = FALSE
    /\ css_pc' = "token_scan"
    /\ UNCHANGED << css_case, css_in, css_rules, css_selectors, css_decls >>
    /\ UNCHANGED non_css_vars

\* The condition of the token-scan loop of parse_selector.
TokenScanCondition(c) ==
    c # NoChar /\ c = Comma /\ c # LBrace /\ ~is_whitespace(c)

\* parse_selector, the head of its token-scan loop.
TokenScanTest ==
    /\ css_pc = "token_scan"
    /\ css_pc' = IF TokenScanCondition(Peek(css_in, css_pos))
                 THEN "token_body" ELSE "selector_end"
    /\ UNCHANGED << css_case, css_in, css_pos, css_rules, css_selectors,
                    css_simple, css_multiple_ids, css_decls >>
    /\ UNCHANGED non_css_vars

NotCommaNorBrace(c) == c # Comma /\ c # LBrace

\* parse_selector, one pass of the body of its token-scan loop.
TokenScanBody ==
    /\ css_pc = "token_body"
    /\ LET c == Peek(css_in, css_pos)
           p1 == Advance(css_in, css_pos)
       IN  CASE c = Hash ->
                  /\ IF css_simple.id # None \/ css_multiple_ids
                     THEN /\ css_simple' = [css_simple EXCEPT !.id = None]
                          /\ css_multiple_ids' = TRUE
                     ELSE /\ css_simple' = [css_simple EXCEPT !.id = parse_id(css_in, p1)]
                          /\ UNCHANGED css_multiple_ids
                  /\ css_pos' = IdentEnd(css_in, p1)
             [] c = Dot ->
                  /\ css_simple' =
                        IF parse_identifier(css_in, p1) # << >>
                        THEN [css_simple EXCEPT
                                !.classes = Append(@, parse_identifier(css_in, p1))]
                        ELSE css_simple
                  /\ css_pos' = IdentEnd(css_in, p1)
                  /\ UNCHANGED css_multiple_ids
             [] OTHER ->
                  /\ css_pos' = ConsumeEnd(css_in, css_pos, NotCommaNorBrace)
                  /\ UNCHANGED << css_simple, css_multiple_ids >>
    /\ css_pc' = "token_scan"
    /\ UNCHANGED << css_case, css_in, css_rules, css_selectors, css_decls >>
    /\ UNCHANGED non_css_vars

\* parse_selector: the selector it returns for simple_sel.
SelectorOf(simple_sel) ==
    Selector(IF simple_sel # DefaultSimpleSelector THEN << simple_sel >> ELSE << >>,
             << >>)

\* parse_selectors: the list after the selector parse_selector returned.
PushSelector(selectors, selector) ==
    IF selector # DefaultSelector THEN Append(selectors, selector) ELSE selectors

\* The return of parse_selector and the rest of that pass of the loop of
\* parse_selectors: the selector is kept unless empty, whitespace is skipped
\* and one comma is consumed.
ParseSelectorReturn ==
    /\ css_pc = "selector_end"
    /\ css_selectors' = PushSelector(css_selectors, SelectorOf(css_simple))
    /\ \E p1 \in {SkipWhitespace(css_in, css_pos)} :
         css_pos' = IF Peek(css_in, p1) = Comma THEN Advance(css_in, p1) ELSE p1
    /\ css_pc' = "selectors"
    /\ UNCHANGED << css_case, css_in, css_rules, css_simple, css_multiple_ids,
                    css_decls >>
    /\ UNCHANGED non_css_vars

\* The condition of the loop of parse_declarations.
DeclarationsLoopCondition(c) == c # NoChar /\ c # RBrace

\* parse_declarations, the head of its loop: another declaration, or the
\* character after the block is consumed and parse_stylesheet pushes the rule.
ParseDeclarationsLoop ==
    /\ css_pc = "declarations"
    /\ IF DeclarationsLoopCondition(Peek(css_in, css_pos))
       THEN /\ css_pc' = "declaration"
            /\ UNCHANGED << css_pos, css_rules >>
       ELSE /\ css_pos' = Advance(css_in, css_pos)
            /\ css_rules' = Append(css_rules, Rule(css_selectors, css_decls))
            /\ css_pc' = "stylesheet"
    /\ UNCHANGED << css_case, css_in, css_selectors, css_simple, css_multiple_ids,
                    css_decls >>
    /\ UNCHANGED non_css_vars

NotColon(c) == c # Colon

\* The characters of a declaration's value.
ValueChar(c) == c # Semicolon /\ c # Newline /\ c # LBrace

\* parse_declarations, one pass of the body of its loop.  (Each \E binds one
\* local of the code, over the one value the code gives it.)
ParseDeclaration ==
    /\ css_pc = "declaration"
    /\ \E p1 \in {SkipWhitespace(css_in, css_pos)} :
       \E p2 \in {ConsumeEnd(css_in, p1, NotColon)} :
       \E property \in {to_lowercase(Run(css_in, p1, p2))} :
       \E p4 \in {SkipWhitespace(css_in, Advance(css_in, p2))} :
       \E p5 \in {ConsumeEnd(css_in, p4, ValueChar)} :
       \E val \in {to_lowercase(Run(css_in, p4, p5))} :
       \E declaration \in {Declaration(property, ClassifyValue(property, val))} :
          IF Peek(css_in, p5) = Semicolon
          THEN /\ css_decls' = Append(css_decls, declaration)
               /\ css_pos' = SkipWhitespace(css_in, Advance(css_in, p5))
          ELSE \E p6 \in {SkipWhitespace(css_in, p5)} :
                 /\ css_decls' = IF Peek(css_in, p6) = RBrace
                                 THEN Append(css_decls, declaration)
                                 ELSE css_decls
                 /\ css_pos' = p6
    /\ css_pc' = "declarations"
    /\ UNCHANGED << css_case, css_in, css_rules, css_selectors, css_simple,
                    css_multiple_ids >>
    /\ UNCHANGED non_css_vars

-----------------------------------------------------------------------------
(* The stylesheets the parser is run on.  A case is a stylesheet text (src)  *)
(* with the rules its grammar stands for (expect), written independently of *)
(* the parser; brace is the index of the first "{" of a selector-list case, *)
(* trail the whitespace that ends a case made of rule blocks.               *)

MaxRules == 2
MaxTokens == 2
MaxSelectors == 2

SeqsUpTo(S, n) == UNION { [1..k -> S] : k \in 0..n }

W_color == Str(<<"c","o","l","o","r">>)
W_width == Str(<<"w","i","d","t","h">>)
W_margin == Str(<<"m","a","r","g","i","n">>)
W_display == Str(<<"d","i","s","p","l","a","y">>)
W_block == Str(<<"b","l","o","c","k">>)
W_red == Str(<<"r","e","d">>)
W_blue == Str(<<"b","l","u","e">>)
W_div == Str(<<"d","i","v">>)
W_box == Str(<<"b","o","x">>)
SP == Str(<<" ">>)

WsSamples == { << >>, SP, Str(<<"NL"," "," ">>) }

\* Declarations terminated by ";" and what they declare.
DeclSamples ==
    { [src |-> Concat(<<W_color, Str(<<":"," ">>), W_red, Str(<<";">>)>>),
       decl |-> Declaration(W_color, Color(1, 0, 0, 1))],
      [src |-> Concat(<<W_width, Str(<<":"," ","1","0","p","x",";">>)>>),
       decl |-> Declaration(W_width, Length(10, "Px"))],
      [src |-> Concat(<<W_display, Str(<<":">>), W_block, Str(<<";">>)>>),
       decl |-> Declaration(W_display, Other(W_block))] }

DeclColorRed == CHOOSE d \in DeclSamples : d.decl.property = W_color
DeclWidth == CHOOSE d \in DeclSamples : d.decl.property = W_width
DeclDisplay == CHOOSE d \in DeclSamples : d.decl.property = W_display

\* The text of a declaration block: each declaration after a space, then " }".
BlockText(ds) ==
    Concat([i \in 1..Len(ds) |-> SP \o ds[i].src]) \o Str(<<" ","}">>)

\* A selector made of a tag name alone.
TagSelector(tag) == Selector(<< SimpleSelector(Some(tag), None, << >>) >>, << >>)

\* Rule blocks "tag { prop: value; ... }".
BlockSamples ==
    { [src |-> Str(<<"p"," ","{">>) \o BlockText(<<DeclColorRed>>),
       rule |-> Rule(<<TagSelector(Str(<<"p">>))>>, <<DeclColorRed.decl>>)],
      [src |-> Str(<<"h","1","{">>) \o BlockText(<<DeclWidth, DeclDisplay>>),
       rule |-> Rule(<<TagSelector(Str(<<"h","1">>))>>,
                     <<DeclWidth.decl, DeclDisplay.decl>>)],
      [src |-> Concat(<<W_div, Str(<<"NL","{">>), BlockText(<<DeclDisplay, DeclColorRed>>)>>),
       rule |-> Rule(<<TagSelector(W_div)>>, <<DeclDisplay.decl, DeclColorRed.decl>>)] }

\* k <= MaxRules rule blocks, whitespace before, between and after them.
BlockCases ==
    { [kind |-> "blocks",
       src |-> lead \o Concat([i \in 1..Len(bs) |->
                                 (IF i > 1 THEN gap ELSE << >>) \o bs[i].src]) \o trail,
       expect |-> [i \in 1..Len(bs) |-> bs[i].rule],
       brace |-> 0,
       trail |-> IF bs = << >> THEN lead \o trail ELSE trail]
      : bs \in SeqsUpTo(BlockSamples, MaxRules),
        lead \in WsSamples, gap \in WsSamples, trail \in WsSamples }

\* The "#id" and ".class" tokens of compound selectors.
TokenSamples ==
    { [src |-> Str(<<"#","x">>), id |-> Some(Str(<<"x">>)), classes |-> << >>],
      [src |-> Str(<<".">>) \o W_box, id |-> None, classes |-> << W_box >>],
      [src |-> Str(<<".","a">>), id |-> None, classes |-> << Str(<<"a">>) >>] }

TokenLists ==
    { ts \in SeqsUpTo(TokenSamples, MaxTokens) :
        /\ Len(ts) >= 1
        /\ Cardinality({i \in 1..Len(ts) : ts[i].id # None}) <= 1 }

\* One rule whose selector is an optional tag name followed by id and class tokens.
CompoundCases ==
    { [kind |-> "compound",
       src |-> Concat(<<tag, Concat([i \in 1..Len(ts) |-> ts[i].src]),
                        Str(<<" ","{">>), BlockText(<<DeclWidth>>)>>),
       expect |-> << Rule(
           << Selector(<< SimpleSelector(
                   IF tag = << >> THEN None ELSE Some(to_lowercase(tag)),
                   Concat([i \in 1..Len(ts) |-> ts[i].id]),
                   Concat([i \in 1..Len(ts) |-> ts[i].classes])) >>, << >>) >>,
           << DeclWidth.decl >>) >>,
       brace |-> 0,
       trail |-> << >>]
      : tag \in { << >>, W_div, Str(<<"D","i","v">>) }, ts \in TokenLists }

\* Final declarations with no ";", and what they declare.
TailSamples ==
    { [src |-> Concat(<<W_margin, Str(<<":"," ","2","e","m">>)>>),
       decl |-> Declaration(W_margin, Length(2, "Em"))],
      [src |-> Concat(<<W_color, Str(<<":"," ">>), W_blue>>),
       decl |-> Declaration(W_color, Color(0, 0, 1, 1))],
      [src |-> Concat(<<W_display, Str(<<":"," ">>), W_block>>),
       decl |-> Declaration(W_display, Other(W_block))] }

\* A rule whose last declaration is followed by optional whitespace and "}",
\* alone or before another rule.
TailCases ==
    { [kind |-> "tail",
       src |-> Concat(<<Str(<<"p"," ","{">>),
                        Concat([i \in 1..Len(pre) |-> SP \o pre[i].src]),
                        SP, last.src, ws, Str(<<"}">>),
                        Concat([i \in 1..Len(after) |-> SP \o after[i].src])>>),
       expect |-> << Rule(<<TagSelector(Str(<<"p">>))>>,
                          Append([i \in 1..Len(pre) |-> pre[i].decl], last.decl)) >>
                  \o [i \in 1..Len(after) |-> after[i].rule],
       brace |-> 0,
       trail |-> << >>]
      : pre \in SeqsUpTo({DeclColorRed}, 1), last \in TailSamples, ws \in WsSamples,
        after \in SeqsUpTo({b \in BlockSamples : b.rule.selectors = <<TagSelector(Str(<<"p">>))>>}, 1) }

TagSamples == { Str(<<"h","1">>), Str(<<"h","2">>) }

\* The separators of a selector list: a comma or a doubled comma, with
\* optional whitespace around.
SeparatorSamples ==
    { Str(<<",">>), Str(<<","," ">>), Str(<<" ",",">>), Str(<<" ",","," ">>),
      Str(<<",",",">>), Str(<<",",","," ">>), Str(<<" ",",",","," ">>) }

\* What follows the last selector of a list: nothing, or a trailing comma.
TrailerSamples == { << >>, Str(<<",">>), Str(<<","," ">>), Str(<<" ",",">>) }

ListText(tags, sep, trailer) ==
    Concat([i \in 1..Len(tags) |-> (IF i > 1 THEN sep ELSE << >>) \o tags[i]])
    \o trailer \o Str(<<" ">>)

\* One rule whose selector list is tag names separated by commas.
ListCases ==
    { [kind |-> "list",
       src |-> Concat(<<ListText(tags, sep, trailer), Str(<<"{">>),
                        BlockText(<<DeclColorRed>>)>>),
       expect |-> << Rule([i \in 1..Len(tags) |-> TagSelector(tags[i])],
                          <<DeclColorRed.decl>>) >>,
       brace |-> Len(ListText(tags, sep, trailer)) + 1,
       trail |-> << >>]
      : tags \in { t \in SeqsUpTo(TagSamples, MaxSelectors) : Len(t) >= 1 },
        sep \in SeparatorSamples, trailer \in TrailerSamples }

CssCases == BlockCases \cup CompoundCases \cup TailCases \cup ListCases

-----------------------------------------------------------------------------
(* The stylesheet parser as a state machine *)

\* Before CssParser::new: no stylesheet yet.
NoCase == [kind |-> "none", src |-> << >>, expect |-> << >>, brace |-> 0,
           trail |-> << >>]

CssInit ==
    /\ css_case = NoCase
    /\ css_in = << >>
    /\ css_pos = 1
    /\ css_pc = "new"
    /\ css_rules = << >>
    /\ css_selectors = << >>
    /\ css_simple = DefaultSimpleSelector
    /\ css_multiple_ids = FALSE
    /\ css_decls = << >>

\* CssParser::new(full_css) and the entry of parse_stylesheet.
CssParserNew ==
    /\ css_pc = "new"
    /\ \E c \in CssCases :
         /\ css_case' = c
         /\ css_in' = c.src
    /\ css_pos' = 1
    /\ css_rules' = << >>
    /\ css_pc' = "stylesheet"
    /\ UNCHANGED << css_selectors, css_simple, css_multiple_ids, css_decls >>
    /\ UNCHANGED non_css_vars

CssNext ==
    \/ CssParserNew
    \/ ParseStylesheetLoop
    \/ ParseSelectorsLoop
    \/ ParseSelectorHead
    \/ TokenScanTest
    \/ TokenScanBody
    \/ ParseSelectorReturn
    \/ ParseDeclarationsLoop
    \/ ParseDeclaration

-----------------------------------------------------------------------------
(* The Document Model of the markup parser (dom/mod.rs) *)

EmptyMap == << >>

text(data) == [node_type |-> "Text", data |-> data, children |-> << >>]

elem(tag_name, attrs, children) ==
    [node_type |-> "Element", tag_name |-> tag_name, attrs |-> attrs,
     children |-> children]

\* HashMap::insert: the map with name bound to value.
MapInsert(map, name, value) ==
    [k \in DOMAIN map \cup {name} |-> IF k = name THEN value ELSE map[k]]

-----------------------------------------------------------------------------
(* The cursor of the markup parser (parser/mod.rs): a String and a byte offset *)

\* char::len_utf8
len_utf8(c) ==
    IF c < 128 THEN 1 ELSE IF c < 2048 THEN 2 ELSE IF c < 65536 THEN 3 ELSE 4

\* str::len: the length in bytes.
RECURSIVE ByteLen(_)
ByteLen(s) ==
    IF s = << >> THEN 0
    ELSE CHOOSE n \in { len_utf8(Head(t)) + ByteLen(Tail(t)) : t \in { s } } : TRUE

\* The index of the character that starts at byte offset pos.
CharIndex(in, pos) ==
    CHOOSE k \in 1..(Len(in) + 1) : ByteLen(SubSeq(in, 1, k - 1)) = pos

\* self.input[self.pos..]
Rest(in, pos) == SubSeq(in, CharIndex(in, pos), Len(in))

\* The text between two byte offsets.
Between(in, from, to) == SubSeq(in, CharIndex(in, from), CharIndex(in, to) - 1)

eof(in, pos) == pos >= ByteLen(in)

\* next_char, where there is a next character (it panics at the end of input).
next_char(in, pos) == in[CharIndex(in, pos)]

starts_with(in, pos, s) ==
    /\ Len(s) <= Len(in) - CharIndex(in, pos) + 1
    /\ SubSeq(in, CharIndex(in, pos), CharIndex(in, pos) + Len(s) - 1) = s

\* expect(s) with the offset left where it was.
expect_OffsetKept(in, pos, s) == [ok |-> starts_with(in, pos, s), pos |-> pos]

\* expect(s): past s when the rest of the input starts with it, a panic (ok
\* FALSE, the offset as it was) otherwise.
expect(in, pos, s) ==
    IF starts_with(in, pos, s)
    THEN [ok |-> TRUE, pos |-> pos + ByteLen(s)]
    ELSE [ok |-> FALSE, pos |-> pos]

\* consume_while(test): the byte offset after the maximal run satisfying test,
\* each character of the run consumed by consume_char.
consume_while(in, pos, test(_)) ==
    CHOOSE p \in { pos + ByteLen(SubSeq(in, k, ConsumeEnd(in, k, test) - 1))
                   : k \in { CharIndex(in, pos) } } : TRUE

consume_whitespace(in, pos) == consume_while(in, pos, is_whitespace)

\* The characters of parse_name: 'a'..'z' | 'A'..'Z' | '0'..'9', ranges that
\* exclude their upper end.
IsNameChar(c) ==
    \/ c >= LowerA /\ c < LowerZ
    \/ c >= UpperA /\ c < UpperZ
    \/ c >= Digit0 /\ c < Digit9

parse_name(in, pos) == consume_while(in, pos, IsNameChar)

Lt == Code("<")
Gt == Code(">")
Slash == Code("/")
Equals == Code("=")
DoubleQuote == Code("dq")
SingleQuote == Code("'")

NotLt(c) == c # Lt

NotGt(c) == c # Gt

-----------------------------------------------------------------------------
(* The markup parser (parser/mod.rs) *)

NoResult == [node_type |-> "None"]

\* A call of parse_nodes in progress: its nodes, and the tag name and the
\* attributes of the element parse_element is building from them (none for
\* the call made by Parser::parse).
Frame(tag_name, attrs, nodes) == [tag_name |-> tag_name, attrs |-> attrs, nodes |-> nodes]

TopFrame == Frame(<< >>, EmptyMap, << >>)

\* The stack with node pushed on the nodes of its innermost call.
PushNode(stack, node) ==
    [stack EXCEPT ![Len(stack)].nodes = Append(@, node)]

\* Parser::parse with the test of the number of nodes left out.
ParseResult_AlwaysWraps(nodes) == elem(Str(<<"h","t","m","l">>), EmptyMap, nodes)

\* Parser::parse: what it returns for the top-level nodes.
ParseResult(nodes) ==
    IF Len(nodes) = 1 THEN nodes[1] ELSE elem(Str(<<"h","t","m","l">>), EmptyMap, nodes)

\* parse_nodes: after the whitespace, whether the loop ends.
NodesLoopEnds(in, pos) == eof(in, pos) \/ starts_with(in, pos, <<Lt, Slash>>)

\* parse_nodes ends: at top level Parser::parse returns, inside an element
\* parse_element goes on to the closing tag.
ParseNodesBreak ==
    /\ h_pc = "nodes"
    /\ \E p1 \in {consume_whitespace(h_in, h_pos)} :
         /\ NodesLoopEnds(h_in, p1)
         /\ h_pos' = p1
    /\ IF Len(h_stack) = 1
       THEN /\ h_result' = ParseResult(h_stack[1].nodes)
            /\ h_pc' = "done"
       ELSE /\ h_pc' = "close"
            /\ UNCHANGED h_result
    /\ UNCHANGED << h_case, h_in, h_stack, h_closed >>
    /\ UNCHANGED non_h_vars

\* parse_nodes, a pass that parses a text node (parse_node, parse_text).
ParseText ==
    /\ h_pc = "nodes"
    /\ \E p1 \in {consume_whitespace(h_in, h_pos)} :
         /\ ~NodesLoopEnds(h_in, p1)
         /\ ~starts_with(h_in, p1, <<Lt>>)
         /\ \E p2 \in {consume_while(h_in, p1, NotLt)} :
              /\ h_stack' = PushNode(h_stack, text(Between(h_in, p1, p2)))
              /\ h_pos' = p2
    /\ UNCHANGED << h_case, h_in, h_pc, h_result, h_closed >>
    /\ UNCHANGED non_h_vars

\* parse_nodes, a pass that starts an element (parse_node, parse_element up to
\* parse_attrs): "<" and the tag name.
ParseElementOpen ==
    /\ h_pc = "nodes"
    /\ \E p1 \in {consume_whitespace(h_in, h_pos)} :
         /\ ~NodesLoopEnds(h_in, p1)
         /\ starts_with(h_in, p1, <<Lt>>)
         /\ \E p2 \in {expect(h_in, p1, <<Lt>>).pos} :
            \E p3 \in {parse_name(h_in, p2)} :
              /\ h_stack' = Append(h_stack, Frame(Between(h_in, p2, p3), EmptyMap, << >>))
              /\ h_pos' = p3
    /\ h_pc' = "attrs"
    /\ UNCHANGED << h_case, h_in, h_result, h_closed >>
    /\ UNCHANGED non_h_vars

\* parse_attrs ends at ">", which parse_element then expects; the children follow.
ParseAttrsBreak ==
    /\ h_pc = "attrs"
    /\ \E p1 \in {consume_whitespace(h_in, h_pos)} :
         /\ ~eof(h_in, p1)
         /\ next_char(h_in, p1) = Gt
         /\ h_pos' = expect(h_in, p1, <<Gt>>).pos
    /\ h_pc' = "nodes"
    /\ UNCHANGED << h_case, h_in, h_stack, h_result, h_closed >>
    /\ UNCHANGED non_h_vars

\* parse_attrs, a pass that parses one attribute (parse_attr, parse_attr_value)
\* or panics: at the end of input (next_char, consume_char), at a missing "="
\* (expect) or at a character that opens no quote (assert).
ParseAttr ==
    /\ h_pc = "attrs"
    /\ \E p1 \in {consume_whitespace(h_in, h_pos)} :
         /\ ~(~eof(h_in, p1) /\ next_char(h_in, p1) = Gt)
         /\ IF eof(h_in, p1)
            THEN /\ h_pos' = p1
                 /\ h_pc' = "panic"
                 /\ UNCHANGED h_stack
            ELSE
            \E p2 \in {parse_name(h_in, p1)} :
            \E e \in {expect(h_in, p2, <<Equals>>)} :
              IF ~e.ok \/ eof(h_in, e.pos)
              THEN /\ h_pos' = e.pos
                   /\ h_pc' = "panic"
                   /\ UNCHANGED h_stack
              ELSE
              \E open_quote \in {next_char(h_in, e.pos)} :
              \E p3 \in {e.pos + len_utf8(open_quote)} :
                IF open_quote # DoubleQuote /\ open_quote # SingleQuote
                THEN /\ h_pos' = p3
                     /\ h_pc' = "panic"
                     /\ UNCHANGED h_stack
                ELSE
                \E p4 \in {consume_while(h_in, p3, LAMBDA c : c # open_quote)} :
                  IF eof(h_in, p4)
                  THEN /\ h_pos' = p4
                       /\ h_pc' = "panic"
                       /\ UNCHANGED h_stack
                  ELSE /\ h_pos' = p4 + len_utf8(next_char(h_in, p4))
                       /\ h_pc' = IF next_char(h_in, p4) = open_quote
                                  THEN "attrs" ELSE "panic"
                       /\ h_stack' =
                             [h_stack EXCEPT ![Len(h_stack)].attrs =
                                 MapInsert(@, Between(h_in, p1, p2), Between(h_in, p3, p4))]
    /\ UNCHANGED << h_case, h_in, h_result, h_closed >>
    /\ UNCHANGED non_h_vars

\* The name a closing tag is written with: the text after "</" up to ">".
ClosingName(in, pos) ==
    CHOOSE name \in { Between(in, pos + 2, to)
                      : to \in { consume_while(in, pos + 2, NotGt) } } : TRUE

\* expect(s) after an expect that ended as e: a panic stays a panic.
ExpectThen(e, in, s) ==
    CHOOSE r \in { IF x.ok THEN expect(in, x.pos, s) ELSE x : x \in { e } } : TRUE

\* The closing tag read as "</", any name, ">".
ClosingTag_AnyName(in, pos, tag_name) ==
    IF starts_with(in, pos, <<Lt, Slash>>)
    THEN expect(in, parse_name(in, pos + 2), <<Gt>>)
    ELSE [ok |-> FALSE, pos |-> pos]

\* parse_element, the closing tag: expect("</"), expect(&tag_name), expect(">").
ClosingTag(in, pos, tag_name) ==
    ExpectThen(ExpectThen(expect(in, pos, <<Lt, Slash>>), in, tag_name), in, <<Gt>>)

\* parse_element after its children: the closing tag is expected, and the
\* element is returned to the parse_nodes that called parse_element.
ParseElementClose ==
    /\ h_pc = "close"
    /\ \E frame \in {h_stack[Len(h_stack)]} :
       \E e \in {ClosingTag(h_in, h_pos, frame.tag_name)} :
         /\ h_pos' = e.pos
         /\ IF e.ok
            THEN /\ h_stack' = PushNode(SubSeq(h_stack, 1, Len(h_stack) - 1),
                                        elem(frame.tag_name, frame.attrs, frame.nodes))
                 /\ h_closed' = Append(h_closed,
                                       [open |-> frame.tag_name,
                                        close |-> ClosingName(h_in, h_pos)])
                 /\ h_pc' = "nodes"
            ELSE /\ h_pc' = "panic"
                 /\ UNCHANGED << h_stack, h_closed >>
    /\ UNCHANGED << h_case, h_in, h_result >>
    /\ UNCHANGED non_h_vars

-----------------------------------------------------------------------------
(* The markup the parser is run on.  A case is a markup text (src) with the  *)
(* tree its grammar stands for (expect), written independently of the       *)
(* parser; open and close are the tag names of the element a "pair" case     *)
(* is about.                                                                *)

MaxTop == 2

W_hi == Str(<<"h","i">>)

OpenTag(name) == <<Lt>> \o name \o <<Gt>>

CloseTag(name) == <<Lt, Slash>> \o name \o <<Gt>>

\* Nodes as written and as trees.
NodeSamples ==
    { [src |-> OpenTag(Str(<<"a">>)) \o CloseTag(Str(<<"a">>)),
       tree |-> elem(Str(<<"a">>), EmptyMap, << >>)],
      [src |-> Concat(<<Str(<<"<","b"," ","i","d","=","'","x","'",">">>), W_hi,
                        CloseTag(Str(<<"b">>))>>),
       tree |-> elem(Str(<<"b">>), MapInsert(EmptyMap, Str(<<"i","d">>), Str(<<"x">>)),
                     << text(W_hi) >>)],
      [src |-> Concat(<<OpenTag(Str(<<"p">>)), SP, OpenTag(Str(<<"a">>)),
                        CloseTag(Str(<<"a">>)), Str(<<"NL">>), CloseTag(Str(<<"p">>))>>),
       tree |-> elem(Str(<<"p">>), EmptyMap, << elem(Str(<<"a">>), EmptyMap, << >>) >>)],
      [src |-> Str(<<"h","eacute">>),
       tree |-> text(Str(<<"h","eacute">>))] }

IsText(sample) == sample.tree.node_type = "Text"

\* n <= MaxTop top-level nodes, no text node next to another, with whitespace
\* before the first node and around the elements.
TopCases ==
    { [kind |-> "top",
       src |-> Concat(<<lead,
                        Concat([i \in 1..Len(ns) |->
                                  (IF i > 1 /\ ~IsText(ns[i - 1]) THEN gap ELSE << >>)
                                  \o ns[i].src]),
                        IF ns = << >> \/ ~IsText(ns[Len(ns)]) THEN trail ELSE << >> >>),
       expect |-> IF Len(ns) = 1 THEN ns[1].tree
                  ELSE elem(Str(<<"h","t","m","l">>), EmptyMap,
                            [i \in 1..Len(ns) |-> ns[i].tree]),
       count |-> Len(ns),
       open |-> << >>,
       close |-> << >>]
      : ns \in { t \in SeqsUpTo(NodeSamples, MaxTop) :
                   \A i \in 1..(Len(t) - 1) : ~(IsText(t[i]) /\ IsText(t[i + 1])) },
        lead \in { << >>, SP }, gap \in { << >>, Str(<<"NL">>) }, trail \in { << >>, SP } }

NameSamples == { Str(<<"a">>), Str(<<"a","b">>), Str(<<"b">>) }

\* What an element of a pair case holds.
BodySamples ==
    { [src |-> << >>, trees |-> << >>],
      [src |-> Str(<<"t">>), trees |-> << text(Str(<<"t">>)) >>],
      [src |-> OpenTag(Str(<<"b">>)) \o CloseTag(Str(<<"b">>)),
       trees |-> << elem(Str(<<"b">>), EmptyMap, << >>) >>] }

\* An element opened with one name and closed with another or the same name,
\* at top level or inside a p element.
PairCases ==
    { [kind |-> "pair",
       src |-> Concat(<<IF wrapped THEN OpenTag(Str(<<"p">>)) ELSE << >>,
                        OpenTag(open), body.src, CloseTag(close),
                        IF wrapped THEN CloseTag(Str(<<"p">>)) ELSE << >> >>),
       expect |-> IF open # close THEN NoResult
                  ELSE IF wrapped
                       THEN elem(Str(<<"p">>), EmptyMap, << elem(open, EmptyMap, body.trees) >>)
                       ELSE elem(open, EmptyMap, body.trees),
       count |-> 1,
       open |-> open,
       close |-> close]
      : open \in NameSamples, close \in NameSamples, body \in BodySamples,
        wrapped \in BOOLEAN }

\* Markup that is cut short or malformed, and markup with two attributes.
OtherMarkup ==
    { Str(<<"<","a">>), Str(<<"<","a"," ","b",">">>), Str(<<"<","a"," ","b","=","x",">">>),
      Str(<<"<","a"," ","b","=","'","x">>), Str(<<"<","a"," ","b","=">>),
      Str(<<"<","a",">">>), Str(<<"<","/","a",">">>),
      Str(<<"<","a",">","<","/","a",">","<","/","b",">">>),
      Str(<<"<","z",">","<","/","z",">">>), Str(<<"<","h","9",">","<","/","h","9",">">>),
      Str(<<"<","a"," ","b","=","'","x","'"," ","c","=","dq","y","dq",">","t","<","/","a",">">>) }

OtherCases ==
    { [kind |-> "other", src |-> m, expect |-> NoResult, count |-> 0,
       open |-> << >>, close |-> << >>] : m \in OtherMarkup }

\* Runs of ASCII letters and digits, the last of each range among them.
RunSamples ==
    { Str(<<"a">>), Str(<<"h","1">>), Str(<<"z">>), Str(<<"Z">>), Str(<<"h","9">>),
      Str(<<"a","z","b">>), Str(<<"A","Z">>), Str(<<"9">>) }

\* What follows the run in the tag: nothing, or text that starts with a
\* character that is no ASCII letter or digit.
RunEndSamples ==
    { << >>, Str(<<"-","b">>), Str(<<"_","b">>), Str(<<"eacute">>) }

\* An empty element whose tag is written as a run and what follows it; open
\* and close are the run, and the tree is given where the run is all of the tag.
NameCases ==
    { [kind |-> "name",
       src |-> OpenTag(run \o after) \o CloseTag(run \o after),
       expect |-> IF after = << >> THEN elem(run, EmptyMap, << >>) ELSE NoResult,
       count |-> 1,
       open |-> run,
       close |-> run]
      : run \in RunSamples, after \in RunEndSamples }

HtmlCases == TopCases \cup PairCases \cup OtherCases \cup NameCases

-----------------------------------------------------------------------------
(* The markup parser as a state machine *)

NoMarkup == [kind |-> "none", src |-> << >>, expect |-> NoResult, count |-> 0,
             open |-> << >>, close |-> << >>]

HtmlInit ==
    /\ h_case = NoMarkup
    /\ h_in = << >>
    /\ h_pos = 0
    /\ h_pc = "new"
    /\ h_stack = << >>
    /\ h_result = NoResult
    /\ h_closed = << >>

\* Parser::parse(source): the parser at offset 0 and its call of parse_nodes.
ParserParse ==
    /\ h_pc = "new"
    /\ \E c \in HtmlCases :
         /\ h_case' = c
         /\ h_in' = c.src
    /\ h_pos' = 0
    /\ h_stack' = << TopFrame >>
    /\ h_pc' = "nodes"
    /\ UNCHANGED << h_result, h_closed >>
    /\ UNCHANGED non_h_vars

HtmlNext ==
    \/ ParserParse
    \/ ParseNodesBreak
    \/ ParseText
    \/ ParseElementOpen
    \/ ParseAttrsBreak
    \/ ParseAttr
    \/ ParseElementClose

-----------------------------------------------------------------------------
(* Elements as the style resolver reads them (dom.rs) *)

W_id == Str(<<"i","d">>)
W_class == Str(<<"c","l","a","s","s">>)

ElementData(tag_name, attributes) == [tag_name |-> tag_name, attributes |-> attributes]

\* HashMap::get
MapGet(map, key) == IF key \in DOMAIN map THEN Some(map[key]) ELSE None

get_id(el) == MapGet(el.attributes, W_id)

\* str::split(' ') collected into a set: the pieces between the spaces, the
\* empty ones included.
RECURSIVE SplitOnSpace(_)
SplitOnSpace(str) ==
    IF \A i \in 1..Len(str) : str[i] # Code(" ")
    THEN { str }
    ELSE { SubSeq(str, 1, ConsumeEnd(str, 1, LAMBDA c : c # Code(" ")) - 1) }
         \cup SplitOnSpace(SubSeq(str, ConsumeEnd(str, 1, LAMBDA c : c # Code(" ")) + 1,
                                  Len(str)))

get_classes(el) ==
    IF MapGet(el.attributes, W_class) # None
    THEN SplitOnSpace(MapGet(el.attributes, W_class)[1])
    ELSE { }

-----------------------------------------------------------------------------
(* Selector matching (styles.rs) *)

\* is_selector_matches, the tag name of a simple selector: no continue.
TagMatches(el, simple) ==
    simple.tag_name = None \/ simple.tag_name[1] = el.tag_name

\* The id test with a selector id required where the element has one.
IdMatches_Strict(el_id, sel_id) == el_id = sel_id

\* is_selector_matches, the id of a simple selector against el.get_id(): no continue.
IdMatches(el_id, sel_id) ==
    IF el_id # None
    THEN (IF sel_id # None THEN el_id[1] = sel_id[1] ELSE TRUE)
    ELSE (IF sel_id # None THEN FALSE ELSE TRUE)

\* The class test satisfied by any one class.
ClassesMatch_Any(el_classes, classes) ==
    classes = << >> \/ \E i \in 1..Len(classes) : classes[i] \in el_classes

\* is_selector_matches, the classes of a simple selector: matches after the loop.
ClassesMatch(el_classes, classes) ==
    \A i \in 1..Len(classes) : classes[i] \in el_classes

\* is_selector_matches: the loop over sel.simple from its i-th pass on; a
\* simple selector that fails a test is passed over, the first that passes
\* every test returns true.
RECURSIVE MatchesFrom(_, _, _)
MatchesFrom(el, simples, i) ==
    IF i > Len(simples) THEN FALSE
    ELSE IF /\ TagMatches(el, simples[i])
            /\ IdMatches(get_id(el), simples[i].id)
            /\ ClassesMatch(get_classes(el), simples[i].classes)
         THEN TRUE
         ELSE MatchesFrom(el, simples, i + 1)

is_selector_matches(el, sel) == MatchesFrom(el, sel.simple, 1)

-----------------------------------------------------------------------------
(* The elements and selectors is_selector_matches is applied to.  A case is  *)
(* an element with what its markup says of it: its id (a sequence of length *)
(* 0 or 1) and the set of its classes.                                      *)

W_a == Str(<<"a">>)
W_b == Str(<<"b">>)
W_c == Str(<<"c">>)
W_x == Str(<<"x">>)
W_y == Str(<<"y">>)
W_p == Str(<<"p">>)

\* class attributes as written and as sets of classes.
ClassSamples ==
    { [attr |-> None, classes |-> { }],
      [attr |-> Some(Concat(<<W_a, SP, W_b>>)), classes |-> { W_a, W_b }],
      [attr |-> Some(W_a), classes |-> { W_a }],
      [attr |-> Some(Concat(<<W_b, SP, W_c>>)), classes |-> { W_b, W_c }] }

AttrsOf(id, class) ==
    [k \in (IF id = None THEN { } ELSE { W_id })
            \cup (IF class = None THEN { } ELSE { W_class })
       |-> IF k = W_id THEN id[1] ELSE class[1]]

ElementCases ==
    { [el |-> ElementData(tag, AttrsOf(id, class.attr)),
       id |-> id,
       classes |-> class.classes]
      : tag \in { W_div, Str(<<"D","i","v">>) },
        id \in { None, Some(W_x), Some(W_y) },
        class \in ClassSamples }

SimpleSelectors ==
    { SimpleSelector(tag, id, classes)
      : tag \in { None, Some(W_div), Some(W_p) },
        id \in { None, Some(W_x), Some(W_y) },
        classes \in { << >>, << W_a >>, << W_a, W_b >>, << W_c >> } }

\* Selectors of one simple selector, as the parser builds them, the empty
\* selector, and some selectors of two.
SelectorSamples ==
    { Selector(<< simple >>, << >>) : simple \in SimpleSelectors }
    \cup { DefaultSelector }
    \cup { Selector(<< s1, s2 >>, << >>)
           : s1 \in { SimpleSelector(Some(W_p), None, << >>),
                      SimpleSelector(None, Some(W_x), << >>) },
             s2 \in { SimpleSelector(Some(W_div), None, << W_a >>),
                      SimpleSelector(None, Some(W_y), << >>) } }

NoElement == [el |-> ElementData(<< >>, EmptyMap), id |-> None, classes |-> { }]

MatchInit ==
    /\ m_case = NoElement
    /\ m_sel = DefaultSelector
    /\ m_result = FALSE
    /\ m_pc = "new"

\* An element and a selector are given to is_selector_matches.
MatchCall ==
    /\ m_pc = "new"
    /\ m_case' \in ElementCases
    /\ m_sel' \in SelectorSamples
    /\ m_pc' = "called"
    /\ UNCHANGED m_result
    /\ UNCHANGED non_m_vars

\* is_selector_matches returns.
MatchReturn ==
    /\ m_pc = "called"
    /\ m_result' = is_selector_matches(m_case.el, m_sel)
    /\ m_pc' = "returned"
    /\ UNCHANGED << m_case, m_sel >>
    /\ UNCHANGED non_m_vars

MatchNext == MatchCall \/ MatchReturn

-----------------------------------------------------------------------------
(* Style resolution (styles.rs): get_styles *)

\* styles.insert of a declaration's property and value, the first entry of a
\* property kept.
StyleInsert_KeepFirst(styles, dclr) ==
    IF dclr.property \in DOMAIN styles THEN styles
    ELSE MapInsert(styles, dclr.property, dclr.value)

\* get_styles: styles.insert(&dclr.property, &dclr.value)
StyleInsert(styles, dclr) == MapInsert(styles, dclr.property, dclr.value)

\* get_styles: the loop over rule.declarations.
RECURSIVE InsertDeclarations(_, _)
InsertDeclarations(styles, declarations) ==
    IF declarations = << >> THEN styles
    ELSE StyleInsert(InsertDeclarations(styles, SubSeq(declarations, 1,
                                                       Len(declarations) - 1)),
                     declarations[Len(declarations)])

\* The selector under test in the inner loop.
SelectorUnderTest == s_sheet[s_rule].selectors[s_sel]

InSelectorsLoop ==
    /\ s_pc = "rules"
    /\ s_rule <= Len(s_sheet)
    /\ s_sel <= Len(s_sheet[s_rule].selectors)

\* The selector matches: the rule's declarations are inserted, and break.
SelectorMatches ==
    /\ InSelectorsLoop
    /\ is_selector_matches(s_el, SelectorUnderTest)
    /\ s_styles' = InsertDeclarations(s_styles, s_sheet[s_rule].declarations)
    /\ s_merges' = [s_merges EXCEPT ![s_rule] = @ + 1]
    /\ s_rule' = s_rule + 1
    /\ s_sel' = 1
    /\ UNCHANGED << s_el, s_sheet, s_pc >>
    /\ UNCHANGED non_s_vars

\* The selector does not match: the next selector of the rule.
SelectorFails ==
    /\ InSelectorsLoop
    /\ ~is_selector_matches(s_el, SelectorUnderTest)
    /\ s_sel' = s_sel + 1
    /\ UNCHANGED << s_el, s_sheet, s_rule, s_styles, s_merges, s_pc >>
    /\ UNCHANGED non_s_vars

\* The selectors of the rule are exhausted: the next rule.
SelectorsExhausted ==
    /\ s_pc = "rules"
    /\ s_rule <= Len(s_sheet)
    /\ s_sel > Len(s_sheet[s_rule].selectors)
    /\ s_rule' = s_rule + 1
    /\ s_sel' = 1
    /\ UNCHANGED << s_el, s_sheet, s_styles, s_merges, s_pc >>
    /\ UNCHANGED non_s_vars

\* The rules are exhausted: get_styles returns styles.
GetStylesReturn ==
    /\ s_pc = "rules"
    /\ s_rule > Len(s_sheet)
    /\ s_pc' = "done"
    /\ UNCHANGED << s_el, s_sheet, s_rule, s_sel, s_styles, s_merges >>
    /\ UNCHANGED non_s_vars

-----------------------------------------------------------------------------
(* The elements and stylesheets get_styles is applied to *)

MaxSheetRules == 2

W_span == Str(<<"s","p","a","n">>)

StyledElements ==
    { ElementData(W_div, AttrsOf(Some(W_x), Some(Concat(<<W_a, SP, W_b>>)))),
      ElementData(W_div, EmptyMap),
      ElementData(W_p, AttrsOf(None, Some(W_b))),
      ElementData(W_span, AttrsOf(Some(W_y), Some(W_a))) }

TagOnly(tag) == Selector(<< SimpleSelector(Some(tag), None, << >>) >>, << >>)
IdOnly(id) == Selector(<< SimpleSelector(None, Some(id), << >>) >>, << >>)
ClassOnly(class) == Selector(<< SimpleSelector(None, None, << class >>) >>, << >>)

RuleSamples ==
    { Rule(<< TagOnly(W_div) >>,
           << Declaration(W_color, Color(1, 0, 0, 1)) >>),
      Rule(<< IdOnly(W_x) >>,
           << Declaration(W_color, Color(0, 0, 1, 1)),
              Declaration(W_width, Length(10, "Px")) >>),
      Rule(<< ClassOnly(W_a), TagOnly(W_div) >>,
           << Declaration(W_width, Length(2, "Em")),
              Declaration(W_width, Length(10, "Px")) >>),
      Rule(<< TagOnly(W_p), ClassOnly(W_b) >>,
           << Declaration(W_display, Other(W_block)) >>),
      Rule(<< >>,
           << Declaration(W_color, Color(0, 1, 0, 1)) >>),
      Rule(<< Selector(<< SimpleSelector(Some(W_span), Some(W_y), << W_a >>) >>, << >>),
              ClassOnly(W_b) >>,
           << Declaration(W_display, Other(W_red)),
              Declaration(W_color, Color(1, 1, 1, 1)) >>) }

Stylesheets == SeqsUpTo(RuleSamples, MaxSheetRules)

StyleInit ==
    /\ s_el = ElementData(<< >>, EmptyMap)
    /\ s_sheet = << >>
    /\ s_rule = 0
    /\ s_sel = 0
    /\ s_styles = EmptyMap
    /\ s_merges = << >>
    /\ s_pc = "new"

\* get_styles is called: styles is a new map and the loops start.
GetStylesCall ==
    /\ s_pc = "new"
    /\ s_el' \in StyledElements
    /\ s_sheet' \in Stylesheets
    /\ s_rule' = 1
    /\ s_sel' = 1
    /\ s_styles' = EmptyMap
    /\ s_merges' = [r \in 1..Len(s_sheet') |-> 0]
    /\ s_pc' = "rules"
    /\ UNCHANGED non_s_vars

StyleNext ==
    \/ GetStylesCall
    \/ SelectorMatches
    \/ SelectorFails
    \/ SelectorsExhausted
    \/ GetStylesReturn

-----------------------------------------------------------------------------
(* Values with defaults: translate_color, translate_length, get_display *)

W_inline == Str(<<"i","n","l","i","n","e">>)
W_none == Str(<<"n","o","n","e">>)
W_inline_block == Str(<<"i","n","l","i","n","e","-","b","l","o","c","k">>)

\* StyledNode::value
value(styles, name) == MapGet(styles, name)

get_display(styles) ==
    IF value(styles, W_display) # None
    THEN IF value(styles, W_display)[1].kind = "Other"
         THEN CASE value(styles, W_display)[1].text = W_block -> "Block"
                [] value(styles, W_display)[1].text = W_none -> "None"
                [] value(styles, W_display)[1].text = W_inline -> "Inline"
                [] value(styles, W_display)[1].text = W_inline_block -> "InlineBlock"
                [] OTHER -> "Inline"
         ELSE "Inline"
    ELSE "None"

MaxKeyword == 3

ColorKeywords ==
    { Str(<<"b","l","a","c","k">>), Str(<<"w","h","i","t","e">>), W_red,
      Str(<<"g","r","e","e","n">>), W_blue }

ColorCases ==
    { [kind |-> "color", text |-> w, unit |-> << >>, styles |-> EmptyMap]
      : w \in ColorKeywords
              \cup SeqsUpTo({ Code("r"), Code("e"), Code("d") }, MaxKeyword)
              \cup { Str(<<"p","u","r","p","l","e">>), Str(<<"R","e","d">>),
                     Str(<<"#","f","f","f">>), Str(<<"r","e","d"," ">>) } }

UnitStrings ==
    { Str(<<"p","x">>), Str(<<"e","m">>), Str(<<"r","e","m">>), Str(<<"v","h">>),
      Str(<<"v","w">>), Str(<<"v","m","i","n">>), Str(<<"v","m","a","x">>) }

LengthCases ==
    { [kind |-> "length", text |-> digits \o unit, unit |-> unit, styles |-> EmptyMap]
      : digits \in { << >>, Str(<<"2">>), Str(<<"1","0">>), Str(<<"0","7">>),
                     Str(<<"sup2">>) },
        unit \in UnitStrings
                 \cup { << >>, Str(<<"p","t">>), Str(<<"P","X">>), Str(<<" ","p","x">>),
                        Str(<<"%">>), Str(<<"e","2","p","x">>), Str(<<".","5","e","m">>),
                        Str(<<"p","x",";">>) } }

DisplayCases ==
    { [kind |-> "display", text |-> << >>, unit |-> << >>, styles |-> m]
      : m \in { EmptyMap, MapInsert(EmptyMap, W_color, Color(1, 0, 0, 1)) }
              \cup { MapInsert(EmptyMap, W_display, v)
                     : v \in { Other(w) : w \in { W_block, W_none, W_inline,
                                                   W_inline_block, << >>, W_red,
                                                   Str(<<"w","e","i","r","d">>),
                                                   Str(<<"B","l","o","c","k">>),
                                                   Str(<<"f","l","e","x">>) } }
                             \cup { Color(0, 0, 0, 1), Length(10, "Px") } } }

ValueCases == ColorCases \cup LengthCases \cup DisplayCases

NoValue == [kind |-> "none", text |-> << >>, unit |-> << >>, styles |-> EmptyMap]

ValueInit ==
    /\ v_case = NoValue
    /\ v_out = "unset"
    /\ v_pc = "new"

\* A value is given to the operation of its kind.
ValueCall ==
    /\ v_pc = "new"
    /\ v_case' \in ValueCases
    /\ v_pc' = "called"
    /\ UNCHANGED v_out
    /\ UNCHANGED non_v_vars

TranslateColor ==
    /\ v_pc = "called"
    /\ v_case.kind = "color"
    /\ v_out' = translate_color(v_case.text)
    /\ v_pc' = "returned"
    /\ UNCHANGED v_case
    /\ UNCHANGED non_v_vars

TranslateLength ==
    /\ v_pc = "called"
    /\ v_case.kind = "length"
    /\ v_out' = translate_length(v_case.text)
    /\ v_pc' = "returned"
    /\ UNCHANGED v_case
    /\ UNCHANGED non_v_vars

GetDisplay ==
    /\ v_pc = "called"
    /\ v_case.kind = "display"
    /\ v_out' = get_display(v_case.styles)
    /\ v_pc' = "returned"
    /\ UNCHANGED v_case
    /\ UNCHANGED non_v_vars

ValueNext == ValueCall \/ TranslateColor \/ TranslateLength \/ GetDisplay

-----------------------------------------------------------------------------
(* Specifications: one program is run, the others stay as constructed *)

Init == CssInit /\ HtmlInit /\ MatchInit /\ StyleInit /\ ValueInit

CssSpec == Init /\ [][CssNext]_vars

\* The parser is a sequential program: while a step of it is possible, one is taken.
CssFairSpec == CssSpec /\ WF_vars(CssNext)

HtmlSpec == Init /\ [][HtmlNext]_vars

\* The parser is a sequential program: while a step of it is possible, one is taken.
HtmlFairSpec == HtmlSpec /\ WF_vars(HtmlNext)

MatchSpec == Init /\ [][MatchNext]_vars

StyleSpec == Init /\ [][StyleNext]_vars

ValueSpec == Init /\ [][ValueNext]_vars

-----------------------------------------------------------------------------
(* Claims about the stylesheet parser *)

\* C1: for a stylesheet of k rule blocks "tag { prop: value; ... }" with
\* whitespace before, between and after the blocks, parse_stylesheet returns
\* exactly the k rules of the blocks, in source order, each with its one
\* tag-name selector and its declarations in source order.
C1_BlocksGiveTheirRules ==
    (css_case.kind = "blocks" /\ css_pc = "done") => css_rules = css_case.expect

\* The same, told of the stylesheets with nothing after the last block.
BlocksWithoutTrailerGiveTheirRules ==
    (css_case.kind = "blocks" /\ css_case.trail = << >> /\ css_pc = "done")
        => css_rules = css_case.expect

\* C2: for a rule whose selector is an optional tag name followed by "#id" and
\* ".class" tokens, parse_stylesheet terminates with one rule whose one selector
\* has one SimpleSelector carrying the lowercased tag name, the id and the
\* classes in source order.
C2_CompoundSelectorParsed ==
    (css_case.kind = "compound")
        ~> (css_pc = "done" /\ css_rules = css_case.expect)

\* C3: a final declaration with no ";" that is followed by optional whitespace
\* and "}" is committed to the declarations of its rule, its value classified
\* from the text before that whitespace.
C3_UnterminatedTailCommitted ==
    (css_case.kind = "tail" /\ css_pc = "done") => css_rules = css_case.expect

\* C10: on a list of tag-name selectors separated by commas (trailing and
\* doubled commas included) parse_selectors terminates just after the "{",
\* having collected exactly the tag-name selectors in source order.
C10_SelectorListTerminates ==
    (css_case.kind = "list")
        ~> (/\ css_pc = "declarations"
            /\ css_pos = css_case.brace + 1
            /\ css_selectors = css_case.expect[1].selectors)

-----------------------------------------------------------------------------
(* Claims about the markup parser *)

\* C4: Parser::parse returns the top-level node itself when there is exactly
\* one, and for every other number of top-level nodes an element named html
\* with no attributes whose children are those nodes in their order.
C4_RootOrHtmlWrapper ==
    (h_case.kind = "top" /\ h_pc = "done") => h_result = h_case.expect

\* Two top-level nodes were parsed and wrapped.
C4_Witness ==
    /\ h_case.kind = "top"
    /\ h_case.count = 2
    /\ h_pc = "done"
    /\ h_result.tag_name = Str(<<"h","t","m","l">>)
    /\ Len(h_result.children) = 2

\* C5: an element is constructed only from a closing tag written with the name
\* of its opening tag, and markup whose element is closed with another name
\* (a proper prefix or extension of the opening name included) never yields a tree.
C5_MismatchedCloseIsFatal ==
    /\ \A i \in 1..Len(h_closed) : h_closed[i].open = h_closed[i].close
    /\ (h_case.kind = "pair" /\ h_case.open # h_case.close)
          => (h_pc # "done" /\ h_result = NoResult)

\* <a></ab> ended in a panic at the closing tag.
C5_Witness ==
    /\ h_case.kind = "pair"
    /\ h_case.open = Str(<<"a">>)
    /\ h_case.close = Str(<<"a","b">>)
    /\ h_pc = "panic"
    /\ h_result = NoResult

\* The pair cases closed with the opening name parse to their tree.
MatchedPairsParse ==
    (h_case.kind = "pair" /\ h_case.open = h_case.close /\ h_pc \in {"done", "panic"})
        => (h_pc = "done" /\ h_result = h_case.expect)

\* C11: Parser::parse returns a tree only with the cursor at the end of the
\* input: no suffix of the markup is left unconsumed by a parse that returns,
\* and markup with a closing tag at top level that closes no open element,
\* as <a></a></b>, ends in a panic.
C11_ReturnsOnlyAtEndOfInput ==
    h_pc = "done" => eof(h_in, h_pos)

\* C12: parse_name consumes the maximal run at the cursor of the characters
\* a..z, A..Z and 0..9, the ends of each range included, and stops before the
\* first other character, so the tag name of an element is the whole run of
\* letters and digits after its "<", and markup as <z></z> or <h9></h9> parses
\* to an element with that tag name.
C12_NameIsMaximalRun ==
    h_case.kind = "name" =>
        /\ Len(h_stack) >= 2 => h_stack[2].tag_name = h_case.open
        /\ (h_case.expect # NoResult /\ h_pc \in { "done", "panic" })
               => (h_pc = "done" /\ h_result = h_case.expect)

\* A pass of the loop of parse_nodes or of the loop of parse_attrs.
LoopPass == ParseText \/ ParseElementOpen \/ ParseAttr

\* C13: Parser::parse terminates on every markup, with a tree or in a panic;
\* the offset of the cursor never decreases and never exceeds the length of
\* the input, and every pass of the node loop and of the attribute loop
\* advances the offset or ends in a panic.
C13_ParseTerminates ==
    /\ [](h_pos <= ByteLen(h_in))
    /\ [][h_pos' >= h_pos]_vars
    /\ [][LoopPass => (h_pos' > h_pos \/ h_pc' = "panic")]_vars
    /\ (h_pc # "new") ~> (h_pc \in { "done", "panic" })

\* An attribute cut short by the end of the input ended the parse in a panic
\* with the cursor at the end.
C13_Witness ==
    /\ h_pc = "panic"
    /\ h_in = Str(<<"<","a"," ","b","=","'","x">>)
    /\ h_pos = ByteLen(h_in)

-----------------------------------------------------------------------------
(* Claims about selector matching *)

\* The selector holds one simple selector, with a tag name and an id.
OneSimpleWithTagAndId ==
    /\ Len(m_sel.simple) = 1
    /\ m_sel.simple[1].tag_name # None
    /\ m_sel.simple[1].id # None

\* Every class of the selector's one simple selector is a class of the element.
ElementHasClasses ==
    \A i \in 1..Len(m_sel.simple[1].classes) :
        m_sel.simple[1].classes[i] \in m_case.classes

\* C6: for an element and a selector of one simple selector with a tag name,
\* an id and a class list, is_selector_matches returns true if and only if
\* the tag name is the element's tag name, letter case included, the id is the
\* element's id attribute, and every class of the selector is among the
\* classes of the element's class attribute; an empty class list constrains
\* nothing.
C6_MatchIffTagIdClasses ==
    (m_pc = "returned" /\ OneSimpleWithTagAndId) =>
        (m_result <=> /\ m_sel.simple[1].tag_name[1] = m_case.el.tag_name
                      /\ m_case.id = m_sel.simple[1].id
                      /\ ElementHasClasses)

\* <div id="x" class="a b"> was matched against div#x.a, and matched.
C6_Witness ==
    /\ m_pc = "returned"
    /\ m_case.el = ElementData(W_div, AttrsOf(Some(W_x), Some(Concat(<<W_a, SP, W_b>>))))
    /\ m_sel = Selector(<< SimpleSelector(Some(W_div), Some(W_x), << W_a >>) >>, << >>)
    /\ m_result

\* C9 as stated: is_selector_matches rejects a simple selector whenever its id
\* and the element's id attribute disagree in presence or in value, so a
\* selector whose simple selectors all disagree with the element on the id
\* does not match it.
C9_IdDisagreementRejects ==
    (/\ m_pc = "returned"
     /\ \A i \in 1..Len(m_sel.simple) : m_sel.simple[i].id # m_case.id)
        => ~m_result

\* C9 as the code has it: a simple selector with an id is rejected when the
\* element has no id attribute or another id, so a selector whose simple
\* selectors all carry an id other than the element's does not match; a simple
\* selector without an id is not rejected for the element's having one, and a
\* selector of one such simple selector matches exactly when its tag name and
\* its classes do.
C9_SelectorIdRejects ==
    m_pc = "returned" =>
        /\ (\A i \in 1..Len(m_sel.simple) :
                m_sel.simple[i].id # None /\ m_sel.simple[i].id # m_case.id)
            => ~m_result
        /\ (Len(m_sel.simple) = 1 /\ m_sel.simple[1].id = None /\ m_case.id # None)
            => (m_result <=> /\ m_sel.simple[1].tag_name
                                  \in { None, Some(m_case.el.tag_name) }
                             /\ ElementHasClasses)

\* An element without an id was tested against a selector whose tag name and
\* classes it satisfies and which has an id: rejected.
C9_Witness ==
    /\ m_pc = "returned"
    /\ Len(m_sel.simple) = 1
    /\ m_sel.simple[1].id # None
    /\ m_case.id = None
    /\ m_sel.simple[1].tag_name = Some(m_case.el.tag_name)
    /\ m_sel.simple[1].classes # << >>
    /\ ElementHasClasses
    /\ ~m_result

-----------------------------------------------------------------------------
(* Claims about style resolution *)

\* Some selector of the r-th rule matches the element.
RuleMatches(r) ==
    \E i \in 1..Len(s_sheet[r].selectors) :
        is_selector_matches(s_el, s_sheet[r].selectors[i])

\* The places <<rule, declaration>> of the stylesheet where a matching rule
\* declares p.
MatchingDeclarations(p) ==
    { rd \in UNION { { << r, d >> : d \in 1..Len(s_sheet[r].declarations) }
                     : r \in 1..Len(s_sheet) }
      : RuleMatches(rd[1]) /\ s_sheet[rd[1]].declarations[rd[2]].property = p }

DeclaredProperties ==
    UNION { { s_sheet[r].declarations[d].property
              : d \in 1..Len(s_sheet[r].declarations) }
            : r \in 1..Len(s_sheet) }

\* One place is after the other in rule order, then declaration order.
After(a, b) == a[1] > b[1] \/ (a[1] = b[1] /\ a[2] > b[2])

\* C7: the style map get_styles returns holds a property exactly when a rule
\* with a selector matching the element declares it, with the value of the
\* last such declaration in rule order, then declaration order; a rule's
\* declarations are merged once if one of its selectors matches, however
\* many do, and never otherwise.
C7_LastMatchingDeclarationWins ==
    s_pc = "done" =>
        /\ \A p \in DeclaredProperties \cup DOMAIN s_styles :
               p \in DOMAIN s_styles <=> MatchingDeclarations(p) # { }
        /\ \A p \in DOMAIN s_styles :
               \E rd \in MatchingDeclarations(p) :
                   /\ \A o \in MatchingDeclarations(p) : ~After(o, rd)
                   /\ s_styles[p] = s_sheet[rd[1]].declarations[rd[2]].value
        /\ \A r \in 1..Len(s_sheet) :
               s_merges[r] = IF RuleMatches(r) THEN 1 ELSE 0

\* get_styles has returned for a stylesheet with a rule two of whose selectors
\* match the element and a property that two matching rules declare with
\* different values.
C7_Witness ==
    /\ s_pc = "done"
    /\ \E r \in 1..Len(s_sheet) :
           /\ Len(s_sheet[r].selectors) = 2
           /\ \A i \in 1..2 : is_selector_matches(s_el, s_sheet[r].selectors[i])
    /\ \E p \in DOMAIN s_styles :
           \E a \in MatchingDeclarations(p), b \in MatchingDeclarations(p) :
               /\ a[1] # b[1]
               /\ s_sheet[a[1]].declarations[a[2]].value
                      # s_sheet[b[1]].declarations[b[2]].value

-----------------------------------------------------------------------------
(* Claims about values *)

\* The display value of the style map is one of the four recognised ones.
RecognisedDisplay ==
    /\ v_case.styles[W_display].kind = "Other"
    /\ v_case.styles[W_display].text \in { W_block, W_inline, W_inline_block, W_none }

\* C8: a value that is not recognised resolves to the default: translate_color
\* gives black (0,0,0,1) for every keyword other than black, white, red, green
\* and blue; translate_length gives a length in px for every unit string that
\* is empty or not recognised; get_display gives Inline for a display value
\* that is set and is none of block, inline, inline-block and none, and None
\* when the style map has no display.
C8_UnknownValuesDefault ==
    v_pc = "returned" =>
        /\ v_case.kind = "color" =>
               /\ v_out.kind = "Color"
               /\ v_case.text \notin ColorKeywords => v_out = Color(0, 0, 0, 1)
        /\ v_case.kind = "length" =>
               /\ v_out.kind = "Length"
               /\ v_case.unit \notin UnitStrings => v_out.unit = "Px"
        /\ v_case.kind = "display" =>
               /\ v_out \in { "Block", "None", "Inline", "InlineBlock" }
               /\ W_display \notin DOMAIN v_case.styles => v_out = "None"
               /\ (W_display \in DOMAIN v_case.styles /\ ~RecognisedDisplay)
                      => v_out = "Inline"

\* translate_color has returned black for the keyword purple.
C8_Witness ==
    /\ v_pc = "returned"
    /\ v_case.kind = "color"
    /\ v_case.text = Str(<<"p","u","r","p","l","e">>)
    /\ v_out = Color(0, 0, 0, 1)

====
